---- MODULE Spec2Model ----
(***************************************************************************)
(* A model of the plugin host (src/src/main.rs), the contract crate        *)
(* (src/core/src/lib.rs) and the two example plugins                       *)
(* (src/plugin_a/src/lib.rs, src/plugin_b/src/lib.rs).                     *)
(*                                                                         *)
(* The host's main is one sequential thread; `pc` is its position.  The    *)
(* command line is the input: a sequence of module paths, each of which    *)
(* is either not a loadable library, a library without the entry symbol,   *)
(* or a plugin whose entry function makes a sequence of register_plugin    *)
(* calls.                                                                  *)
(***************************************************************************)
EXTENDS Integers, Sequences, FiniteSets, TLC

VARIABLES
    args,       \* std::env::args_os().skip(1): the module paths (main.rs:20)
    pc,         \* position of main
    k,          \* number of paths taken from the argument iterator (main.rs:20)
    j,          \* register_plugin calls made so far by the running entry function
    plugins,    \* registrar.plugins, the Vec's buffer (main.rs:6)
    plugin,     \* the loop variable `plugin` of main.rs:33
    libs,       \* the leaked Library handles, by argument position (main.rs:23)
    calls,      \* the capability method calls made by the host, in order
    dropped,    \* the capability objects whose Box has been dropped
    boxed,      \* the Box::new(..) the entry function holds, not yet handed over
    cb_kind,    \* callback2 applied alone: the implementing plugin
    cb_build,   \* callback2 applied alone: overflow checks on (debug) or off (release)
    cb_arg,     \* callback2 applied alone: the argument i
    cb_ret      \* callback2 applied alone: the value returned

vars == <<args, pc, k, j, plugins, plugin, libs, calls, dropped, boxed,
          cb_kind, cb_build, cb_arg, cb_ret>>

hostVars == <<args, k, j, plugins, plugin, libs, calls, dropped, boxed>>
cbVars == <<cb_kind, cb_build, cb_arg, cb_ret>>

----------------------------------------------------------------------------
(* Bounds of the model *)

MaxModules == 2
MaxRegs == 2
EdgeWidth == 12

----------------------------------------------------------------------------
(* The contract: src/core/src/lib.rs, and its users *)

PluginKinds == {"A", "B"}

Unit == <<>>

\* trait Plugin as the contract crate declares it
CoreSig(op) ==
    IF op = "callback1" THEN [params |-> <<>>, ret |-> "()"]
    ELSE [params |-> <<>>, ret |-> "()"]

\* impl core::Plugin for PluginA / PluginB
PluginSig(kind, op) ==
    IF op = "callback1" THEN [params |-> <<>>, ret |-> "()"]
    ELSE [params |-> <<"i32">>, ret |-> "i32"]

\* what the host passes at its call sites plugin.callback1() and plugin.callback2(7)
HostCallParams(op) ==
    IF op = "callback1" THEN <<>> ELSE <<"i32">>

\* the type under which the host resolves and calls the entry symbol
HostEntrySig ==
    [name |-> "plugin_entry", mangled |-> FALSE, abi |-> "C",
     params |-> <<"&mut dyn PluginRegistrar">>, ret |-> "()"]

\* the entry function as a plugin module exports it: #[no_mangle] pub fn
PluginEntrySig(module) ==
    [name |-> "plugin_entry", mangled |-> FALSE, abi |-> "Rust",
     params |-> <<"&mut dyn PluginRegistrar">>, ret |-> "()"]

----------------------------------------------------------------------------
(* callback2: i32 arithmetic *)

I32Max == 2147483647
I32Min == -I32Max - 1

\* i + 1 and i - 1 on i32: overflow panics when overflow checks are on and
\* wraps when they are off
AddOne(i, build) ==
    IF i = I32Max
    THEN IF build = "debug" THEN [panicked |-> TRUE, value |-> 0]
         ELSE [panicked |-> FALSE, value |-> I32Min]
    ELSE [panicked |-> FALSE, value |-> i + 1]

SubOne(i, build) ==
    IF i = I32Min
    THEN IF build = "debug" THEN [panicked |-> TRUE, value |-> 0]
         ELSE [panicked |-> FALSE, value |-> I32Max]
    ELSE [panicked |-> FALSE, value |-> i - 1]

callback2(kind, i, build) ==
    IF kind = "A" THEN AddOne(i, build) ELSE SubOne(i, build)

HostArg == 7

----------------------------------------------------------------------------
(* The input *)

RegSeqs == UNION {[1..n -> PluginKinds] : n \in 0..MaxRegs}

ModuleSet ==
    {[kind |-> "not_a_library", regs |-> <<>>],
     [kind |-> "no_entry_symbol", regs |-> <<>>]}
    \cup {[kind |-> "plugin", regs |-> r] : r \in RegSeqs}

ArgSeqs == UNION {[1..n -> ModuleSet] : n \in 0..MaxModules}

NoPlugin == [mod |-> 0, idx |-> 0, kind |-> "none"]

\* the Box<dyn Plugin> built by the idx-th register_plugin call of module m
Object(m, idx) == [mod |-> m, idx |-> idx, kind |-> args[m].regs[idx]]


Range(s) == {s[n] : n \in 1..Len(s)}

Builds == {"debug", "release"}

PanicStrategies == {"unwind", "abort"}

----------------------------------------------------------------------------
(* The host: src/src/main.rs *)

\* let mut registrar = Registrar { plugins: Vec::new() }
Init ==
    /\ args \in ArgSeqs
    /\ pc = "loop"
    /\ k = 0
    /\ j = 0
    /\ plugins = <<>>
    /\ plugin = NoPlugin
    /\ libs = {}
    /\ calls = <<>>
    /\ dropped = {}
    /\ boxed = NoPlugin
    /\ cb_kind = "A"
    /\ cb_build = "debug"
    /\ cb_arg = HostArg
    /\ cb_ret = 0

\* a registrar that inserts at the front instead of pushing at the back
register_plugin_Front(seq, p) == <<p>> \o seq

\* a registrar that stores the object it is given twice
register_plugin_Twice(seq, p) == Append(Append(seq, p), p)

\* Registrar::register_plugin: self.plugins.push(plugin)
register_plugin(seq, p) == Append(seq, p)

\* a panic in main (a failed unwrap): unwinding drops the live locals, which
\* are the registrar and, inside the second loop, `plugin` and the iterator;
\* with panic=abort nothing is dropped.  The leaked libraries stay mapped.
Panic ==
    /\ pc' = "aborted"
    /\ \E strategy \in PanicStrategies :
          IF strategy = "unwind"
          THEN /\ dropped' = dropped \cup Range(plugins)
                              \cup (IF plugin = NoPlugin THEN {} ELSE {plugin})
               /\ plugins' = <<>>
               /\ plugin' = NoPlugin
          ELSE UNCHANGED <<dropped, plugins, plugin>>

\* for path in std::env::args_os().skip(1): the iterator's next()
ArgsNext ==
    /\ pc = "loop"
    /\ IF k < Len(args)
       THEN /\ k' = k + 1
            /\ pc' = "open"
       ELSE /\ pc' = "iter"
            /\ UNCHANGED k
    /\ UNCHANGED <<args, j, plugins, plugin, libs, calls, dropped>>
    /\ UNCHANGED <<boxed, cbVars>>

\* a host that skips a path it cannot open instead of unwrapping the error
LibraryNew_SkipOnError ==
    /\ pc = "open"
    /\ IF args[k].kind = "not_a_library"
       THEN /\ pc' = "loop"
            /\ UNCHANGED libs
       ELSE /\ libs' = libs \cup {k}
            /\ pc' = "get"
    /\ UNCHANGED <<args, k, j, plugins, plugin, calls, dropped>>
    /\ UNCHANGED <<boxed, cbVars>>

\* Box::leak(Box::new(Library::new(path).unwrap()))
LibraryNew ==
    /\ pc = "open"
    /\ IF args[k].kind = "not_a_library"
       THEN /\ Panic
            /\ UNCHANGED libs
       ELSE /\ libs' = libs \cup {k}
            /\ pc' = "get"
            /\ UNCHANGED <<plugins, plugin, dropped>>
    /\ UNCHANGED <<args, k, j, calls>>
    /\ UNCHANGED <<boxed, cbVars>>

\* a host that calls the entry function without checking the resolution
LibGet_Unchecked ==
    /\ pc = "get"
    /\ pc' = "call"
    /\ UNCHANGED <<args, k, j, plugins, plugin, libs, calls, dropped>>
    /\ UNCHANGED <<boxed, cbVars>>

\* a host that opens the library again when the entry symbol is missing
LibGet_RetriesOpen ==
    /\ pc = "get"
    /\ pc' = IF args[k].kind = "no_entry_symbol" THEN "open" ELSE "call"
    /\ UNCHANGED <<args, k, j, plugins, plugin, libs, calls, dropped>>
    /\ UNCHANGED <<boxed, cbVars>>

\* lib.get(b"plugin_entry").unwrap()
LibGet ==
    /\ pc = "get"
    /\ IF args[k].kind = "no_entry_symbol"
       THEN Panic
       ELSE /\ pc' = "call"
            /\ UNCHANGED <<plugins, plugin, dropped>>
    /\ UNCHANGED <<args, k, j, libs, calls>>
    /\ UNCHANGED <<boxed, cbVars>>

\* func(&mut registrar): control enters the plugin's entry function
CallEntry ==
    /\ pc = "call"
    /\ pc' = "entry"
    /\ j' = 0
    /\ UNCHANGED <<args, k, plugins, plugin, libs, calls, dropped>>
    /\ UNCHANGED <<boxed, cbVars>>

\* inside plugin_entry: the argument Box::new(..) is built; the plugin
\* holds it until the call
BoxNew ==
    /\ pc = "entry"
    /\ boxed = NoPlugin
    /\ j < Len(args[k].regs)
    /\ boxed' = Object(k, j + 1)
    /\ UNCHANGED <<args, pc, k, j, plugins, plugin, libs, calls, dropped>>
    /\ UNCHANGED cbVars

\* inside plugin_entry: registrar.register_plugin(..): the Box is moved
\* into the call, and by the call into the registrar's Vec
RegisterPlugin ==
    /\ pc = "entry"
    /\ boxed # NoPlugin
    /\ plugins' = register_plugin(plugins, boxed)
    /\ boxed' = NoPlugin
    /\ j' = j + 1
    /\ UNCHANGED <<args, pc, k, plugin, libs, calls, dropped>>
    /\ UNCHANGED cbVars

\* a host that does not leak the Library: it is dropped, and the library
\* unmapped, when the body of the first loop ends
EntryReturn_ClosesLibrary ==
    /\ pc = "entry"
    /\ boxed = NoPlugin
    /\ j = Len(args[k].regs)
    /\ pc' = "loop"
    /\ libs' = libs \ {k}
    /\ UNCHANGED <<args, k, j, plugins, plugin, calls, dropped>>
    /\ UNCHANGED <<boxed, cbVars>>

\* a host that treats a module that registered nothing as an error
EntryReturn_RequiresRegistration ==
    /\ pc = "entry"
    /\ boxed = NoPlugin
    /\ j = Len(args[k].regs)
    /\ IF j = 0
       THEN Panic
       ELSE /\ pc' = "loop"
            /\ UNCHANGED <<plugins, plugin, dropped>>
    /\ UNCHANGED <<args, k, j, libs, calls>>
    /\ UNCHANGED <<boxed, cbVars>>

\* a host that invokes what is registered as soon as one module is loaded
EntryReturn_InvokesNow ==
    /\ pc = "entry"
    /\ boxed = NoPlugin
    /\ j = Len(args[k].regs)
    /\ pc' = "iter"
    /\ UNCHANGED <<args, k, j, plugins, plugin, libs, calls, dropped>>
    /\ UNCHANGED <<boxed, cbVars>>

\* plugin_entry returns; the body of the first loop ends (main.rs:31)
EntryReturn ==
    /\ pc = "entry"
    /\ boxed = NoPlugin
    /\ j = Len(args[k].regs)
    /\ pc' = "loop"
    /\ UNCHANGED <<args, k, j, plugins, plugin, libs, calls, dropped>>
    /\ UNCHANGED <<boxed, cbVars>>

\* a host that walks the registrar from the back
IntoIterNext_Reversed ==
    /\ pc = "iter"
    /\ IF plugins # <<>>
       THEN /\ plugin' = plugins[Len(plugins)]
            /\ plugins' = SubSeq(plugins, 1, Len(plugins) - 1)
            /\ pc' = "cb1"
       ELSE /\ pc' = "done"
            /\ UNCHANGED <<plugins, plugin>>
    /\ UNCHANGED <<args, k, j, libs, calls, dropped>>
    /\ UNCHANGED <<boxed, cbVars>>

\* a host that destroys the object as it takes it, before invoking it
IntoIterNext_DropsOnTake ==
    /\ pc = "iter"
    /\ IF plugins # <<>>
       THEN /\ plugin' = Head(plugins)
            /\ plugins' = Tail(plugins)
            /\ dropped' = dropped \cup {Head(plugins)}
            /\ pc' = "cb1"
       ELSE /\ pc' = "done"
            /\ UNCHANGED <<plugins, plugin, dropped>>
    /\ UNCHANGED <<args, k, j, libs, calls>>
    /\ UNCHANGED <<boxed, cbVars>>

\* for plugin in registrar.plugins: the Vec is taken by value; next() moves
\* the front element out of the buffer into `plugin`.  At the end of the
\* sequence main returns.
IntoIterNext ==
    /\ pc = "iter"
    /\ IF plugins # <<>>
       THEN /\ plugin' = Head(plugins)
            /\ plugins' = Tail(plugins)
            /\ pc' = "cb1"
       ELSE /\ pc' = "done"
            /\ UNCHANGED <<plugins, plugin>>
    /\ UNCHANGED <<args, k, j, libs, calls, dropped>>
    /\ UNCHANGED <<boxed, cbVars>>

\* a host that dispatches callback1 selectively, to PluginA objects only
Callback1_OnlyForA ==
    /\ pc = "cb1"
    /\ calls' = IF plugin.kind = "A"
                THEN Append(calls, [obj |-> plugin, op |-> "callback1",
                                    arg |-> Unit, ret |-> Unit])
                ELSE calls
    /\ pc' = "cb2"
    /\ UNCHANGED <<args, k, j, plugins, plugin, libs, dropped>>
    /\ UNCHANGED <<boxed, cbVars>>

\* plugin.callback1()
Callback1 ==
    /\ pc = "cb1"
    /\ calls' = Append(calls, [obj |-> plugin, op |-> "callback1",
                               arg |-> Unit, ret |-> Unit])
    /\ pc' = "cb2"
    /\ UNCHANGED <<args, k, j, plugins, plugin, libs, dropped>>
    /\ UNCHANGED <<boxed, cbVars>>

\* dbg!(plugin.callback2(7))
Callback2 ==
    /\ pc = "cb2"
    /\ \E build \in Builds :
       LET r == callback2(plugin.kind, HostArg, build)
       IN  IF r.panicked
           THEN /\ Panic
                /\ UNCHANGED calls
           ELSE /\ calls' = Append(calls, [obj |-> plugin, op |-> "callback2",
                                           arg |-> HostArg, ret |-> r.value])
                /\ pc' = "drop"
                /\ UNCHANGED <<plugins, plugin, dropped>>
    /\ UNCHANGED <<args, k, j, libs>>
    /\ UNCHANGED <<boxed, cbVars>>

\* the end of the second loop's body (main.rs:36): `plugin` goes out of scope
DropPlugin ==
    /\ pc = "drop"
    /\ dropped' = dropped \cup {plugin}
    /\ plugin' = NoPlugin
    /\ pc' = "iter"
    /\ UNCHANGED <<args, k, j, plugins, libs, calls>>
    /\ UNCHANGED <<boxed, cbVars>>

Next ==
    \/ ArgsNext
    \/ LibraryNew
    \/ LibGet
    \/ CallEntry
    \/ BoxNew
    \/ RegisterPlugin
    \/ EntryReturn
    \/ IntoIterNext
    \/ Callback1
    \/ Callback2
    \/ DropPlugin

Spec == Init /\ [][Next]_vars

\* main is one sequential thread: as long as a step is possible, which is so
\* when the entry functions and the capability methods return, it is taken
SpecFair == Spec /\ WF_vars(Next)

----------------------------------------------------------------------------
(* callback2 applied alone to inputs around the ends of i32 and around 0 *)

CbInputs ==
    {I32Min + d : d \in 0..EdgeWidth}
    \cup {d - EdgeWidth : d \in 0..(2 * EdgeWidth)}
    \cup {I32Max - d : d \in 0..EdgeWidth}

InitCallback2 ==
    /\ args = <<>>
    /\ pc = "cb_call"
    /\ k = 0
    /\ j = 0
    /\ plugins = <<>>
    /\ plugin = NoPlugin
    /\ libs = {}
    /\ calls = <<>>
    /\ dropped = {}
    /\ boxed = NoPlugin
    /\ cb_kind \in PluginKinds
    /\ cb_build \in Builds
    /\ cb_arg \in CbInputs
    /\ cb_ret = 0

ApplyCallback2 ==
    /\ pc = "cb_call"
    /\ LET r == callback2(cb_kind, cb_arg, cb_build)
       IN  IF r.panicked
           THEN /\ pc' = "cb_panicked"
                /\ UNCHANGED cb_ret
           ELSE /\ pc' = "cb_returned"
                /\ cb_ret' = r.value
    /\ UNCHANGED <<cb_kind, cb_build, cb_arg>>
    /\ UNCHANGED hostVars

NextCallback2 == ApplyCallback2

SpecCallback2 == InitCallback2 /\ [][NextCallback2]_vars

----------------------------------------------------------------------------
(* What the claims speak of *)

Ops == {"callback1", "callback2"}

\* the objects module m's entry function registers, in call order
ModuleObjects(m) == [i \in 1..Len(args[m].regs) |-> Object(m, i)]

\* the objects registered by modules 1..n: module order, then call order
RECURSIVE Registered(_)
Registered(n) == IF n = 0 THEN <<>> ELSE Registered(n - 1) \o ModuleObjects(n)

\* the load phase has ended and the invocation phase has taken nothing yet
LoadPhaseDone == pc = "iter" /\ plugin = NoPlugin /\ dropped = {}

InvocationPhase == pc \in {"iter", "cb1", "cb2", "drop"}

\* the step that fails on module m has been taken
OpenFailed(m) ==
    /\ args[m].kind = "not_a_library"
    /\ (k > m \/ (k = m /\ pc # "open"))

ResolveFailed(m) ==
    /\ args[m].kind = "no_entry_symbol"
    /\ (k > m \/ (k = m /\ pc \notin {"open", "get"}))

\* o1 was registered no later than o2
RegisteredBefore(o1, o2) ==
    \/ o1.mod < o2.mod
    \/ (o1.mod = o2.mod /\ o1.idx <= o2.idx)

CallsOn(o, op) == {n \in 1..Len(calls) : calls[n].obj = o /\ calls[n].op = op}

Held == Range(plugins) \cup (IF plugin = NoPlugin THEN {} ELSE {plugin})

----------------------------------------------------------------------------
(* The claims *)

\* C1: when the load phase of a run over valid module paths ends, the
\* registrar's sequence is exactly the objects passed to register_plugin,
\* none lost and none twice, in module argument order and, within a module,
\* in registration-call order.
C1_RegistrarHoldsAllInOrder ==
    LoadPhaseDone => plugins = Registered(Len(args))

C1_Witness ==
    /\ LoadPhaseDone
    /\ Len(args) = 2
    /\ Len(args[1].regs) = 2
    /\ Len(args[2].regs) = 1
    /\ args[1].regs[1] # args[1].regs[2]

\* C2: once opening a library or resolving the entry symbol has failed for
\* a module path at any position, the run is aborted and the host has made
\* and makes no capability method call, also not on objects that earlier
\* modules registered; a failed resolve has the effect of a failed open.
C2_FailureAbortsBeforeAnyCall ==
    \A m \in 1..Len(args) :
        (OpenFailed(m) \/ ResolveFailed(m)) => (pc = "aborted" /\ calls = <<>>)

C2_Witness ==
    /\ pc = "aborted"
    /\ k = 2
    /\ Len(args[1].regs) = 2
    /\ args[2].kind = "no_entry_symbol"

\* C3: the host's capability method calls follow registration order: a call
\* on an object is never followed by a call on an object registered before
\* it, so with modules [A, B] every call on A's object precedes every call
\* on B's object.
C3_InvokedInRegistrationOrder ==
    \A a, b \in 1..Len(calls) :
        a < b => RegisteredBefore(calls[a].obj, calls[b].obj)

C3_Witness ==
    /\ pc = "done"
    /\ Len(args) = 2
    /\ Len(args[1].regs) = 1
    /\ Len(args[2].regs) = 1
    /\ Len(calls) = 4
    /\ calls[1].obj.mod = 1
    /\ calls[4].obj.mod = 2

\* C4 as stated: a registered capability object is never destroyed.
C4_NeverDestroyed ==
    dropped = {}

\* C4 amended: a registered object is owned by the host and is valid while
\* the host holds it (in the registrar's sequence or in the loop variable):
\* no held object is destroyed and every call is on a held object.  The host
\* destroys an object only at the end of its own iteration of the invocation
\* loop, after callback1 and callback2 were each called on it once, or when
\* an aborting run unwinds; a run that completes has destroyed them all.
C4_ValidUntilVisitedThenDropped ==
    /\ Held \cap dropped = {}
    /\ (pc \in {"cb1", "cb2", "drop"} => plugin # NoPlugin)
    /\ \A o \in dropped :
          \/ pc = "aborted"
          \/ (Cardinality(CallsOn(o, "callback1")) = 1
              /\ Cardinality(CallsOn(o, "callback2")) = 1)
    /\ (pc = "done" => dropped = Range(Registered(Len(args))) /\ Held = {})

C4_Witness ==
    /\ pc = "cb1"
    /\ Cardinality(dropped) = 1
    /\ plugin.mod = 2
    /\ Len(plugins) = 1

\* C5: a library handle, once opened, is released in no later state, and the
\* library of every object the host holds, invokes or destroys is mapped.
C5_LibraryNeverReleased ==
    /\ [][libs \subseteq libs']_vars
    /\ [](\A o \in Held \cup dropped : o.mod \in libs)
    /\ [](\A n \in 1..Len(calls) : calls[n].obj.mod \in libs)

C5_Witness ==
    /\ pc = "drop"
    /\ plugin.mod = 1
    /\ libs = {1, 2}
    /\ Len(calls) = 2

\* C6 as stated: the invocation phase only reads the registrar's sequence,
\* which is the same before, during and after it.
C6_ReadOnlyInInvocationPhase ==
    [][InvocationPhase => plugins' = plugins]_vars

\* C6 amended: the registrar's sequence grows only in the load phase and
\* only by register_plugin's append of the object being registered.  The
\* invocation phase does not only read it: the loop takes the sequence by
\* value and each iteration moves the front object out into the loop
\* variable, nothing being added or reordered; besides these two, only the
\* unwinding of an aborting run changes the sequence, by dropping it whole.
C6_AppendedInLoadConsumedInInvocation ==
    [][plugins' # plugins =>
         \/ /\ pc = "entry"
            /\ pc' = "entry"
            /\ plugins' = Append(plugins, Object(k, j + 1))
         \/ /\ pc = "iter"
            /\ plugins # <<>>
            /\ plugin' = Head(plugins)
            /\ plugins' = Tail(plugins)
         \/ /\ pc' = "aborted"
            /\ plugins' = <<>>]_vars

C6_Witness ==
    /\ pc = "cb2"
    /\ Len(plugins) = 2
    /\ Len(args) = 2
    /\ Len(args[1].regs) + Len(args[2].regs) = 3

\* the contract crate, the implementing plugin and the host's call site
\* give operation op the same parameter list and return type
LayoutAgrees(kind, op) ==
    /\ PluginSig(kind, op) = CoreSig(op)
    /\ HostCallParams(op) = CoreSig(op).params

\* C7: each operation of Plugin has one parameter list and return type: at
\* every call the host makes on a capability object, the contract crate's
\* declaration, the object's implementation and the call site agree.
C7_OneSharedLayout ==
    /\ (pc = "cb1" => LayoutAgrees(plugin.kind, "callback1"))
    /\ (pc = "cb2" => LayoutAgrees(plugin.kind, "callback2"))

\* C8: the entry symbol is one wire contract: whenever the host calls a
\* module's plugin_entry, it has resolved and calls it under the name,
\* argument list, return type and calling convention with which the module
\* exports it.
C8_OneEntryContract ==
    pc = "call" => PluginEntrySig(args[k]) = HostEntrySig

\* C9: PluginA's callback2 returns input + 1 for every i32 input.
C9_AddOneForEveryInput ==
    (cb_kind = "A" /\ pc \in {"cb_returned", "cb_panicked"}) =>
        /\ pc = "cb_returned"
        /\ cb_arg < cb_ret
        /\ cb_ret - cb_arg = 1

\* C10: a module whose entry function registers nothing is no error: from
\* its open to the return of its entry function the registrar's sequence
\* does not change and the run does not abort, and the return hands control
\* back to the load loop, which takes the next path if there is one.
C10_ZeroRegistrationsIsNoError ==
    /\ [][(/\ pc \in {"open", "get", "call", "entry"}
           /\ args[k].kind = "plugin"
           /\ args[k].regs = <<>>)
          => (plugins' = plugins /\ pc' # "aborted")]_vars
    /\ [][(pc = "entry" /\ args[k].regs = <<>>) => pc' = "loop"]_vars
    /\ [][(pc = "loop" /\ k < Len(args)) => (pc' = "open" /\ k' = k + 1)]_vars

C10_Witness ==
    /\ pc = "done"
    /\ Len(args) = 2
    /\ args[1].kind = "plugin"
    /\ args[1].regs = <<>>
    /\ Len(args[2].regs) = 2
    /\ Len(calls) = 4

----------------------------------------------------------------------------
(* Outcomes of a run *)

Terminal == ~ENABLED Next

AllValid == \A m \in 1..Len(args) : args[m].kind = "plugin"

\* all modules are loaded and every registered object was visited once:
\* one callback1 and one callback2 on each, and no other call
NormalCompletion ==
    /\ AllValid
    /\ k = Len(args)
    /\ libs = 1..Len(args)
    /\ Len(calls) = 2 * Len(Registered(Len(args)))
    /\ \A o \in Range(Registered(Len(args))) :
          /\ Cardinality(CallsOn(o, "callback1")) = 1
          /\ Cardinality(CallsOn(o, "callback2")) = 1

\* the run stopped at module k, the first whose open or resolve fails
AbortedAtFirstFailure ==
    /\ k \in 1..Len(args)
    /\ args[k].kind # "plugin"
    /\ \A m \in 1..(k - 1) : args[m].kind = "plugin"
    /\ calls = <<>>

\* C11: a run ends in exactly one of two outcomes.  The only states without
\* a next step are "done" and "aborted"; "done" is reached only with all
\* modules loaded and every registered object invoked once, "aborted" only
\* at the first open or resolve failure; and with entry functions and
\* capability methods that return, every run reaches one of the two.
C11_TwoOutcomes ==
    /\ [](Terminal <=> pc \in {"done", "aborted"})
    /\ [](pc = "done" => NormalCompletion)
    /\ [](pc = "aborted" => AbortedAtFirstFailure)
    /\ <>(pc \in {"done", "aborted"})

C11_Witness ==
    /\ pc = "done"
    /\ Len(args) = 2
    /\ Len(calls) = 8

\* the method the n-th call of a run without load failure is to make
ExpectedOp(n) == IF n % 2 = 1 THEN "callback1" ELSE "callback2"

\* C12: on a run without load failure every registered object gets every
\* capability method, callback1 then callback2, each once, and no object is
\* skipped: the calls made so far are, object by object in registration
\* order, callback1 and then callback2, and a completed run has made two
\* calls per registered object.
C12_EveryMethodOnEveryObject ==
    LET R == Registered(Len(args))
    IN  /\ Len(calls) <= 2 * Len(R)
        /\ \A n \in 1..Len(calls) :
              /\ calls[n].obj = R[(n + 1) \div 2]
              /\ calls[n].op = ExpectedOp(n)
        /\ (pc = "done" => Len(calls) = 2 * Len(R))

C12_Witness ==
    /\ pc = "done"
    /\ Len(args) = 2
    /\ args[1].regs = <<"A">>
    /\ args[2].regs = <<"B", "A">>
    /\ Len(calls) = 6
    /\ calls[3].op = "callback1"
    /\ calls[3].obj.kind = "B"

----------------------------------------------------------------------------
(* The per-path state machine *)

Unopened == 0
Opened == 1
SymbolResolved == 2
Entered == 3
RegisteredStage == 4

\* where module path m stands, read from main's position: the paths before
\* the current one are done, those after it untouched
Stage(m) ==
    IF m > k THEN Unopened
    ELSE IF m < k THEN RegisteredStage
    ELSE IF pc = "open" THEN Unopened
    ELSE IF pc = "get" THEN Opened
    ELSE IF pc = "call" THEN SymbolResolved
    ELSE IF pc = "entry" THEN Entered
    ELSE IF pc = "aborted" /\ args[m].kind = "not_a_library" THEN Unopened
    ELSE IF pc = "aborted" /\ args[m].kind = "no_entry_symbol" THEN Opened
    ELSE RegisteredStage

\* C13: every module path only moves forward, one stage at a time, through
\* Unopened, Opened, SymbolResolved, (entry function running,) Registered:
\* no step takes a path back to an earlier stage, so none is opened,
\* resolved or entered twice; a path's library is open exactly from stage
\* Opened on; after a failed step nothing is retried, as the aborted run
\* takes no further step, and the paths after the current one are unopened.
C13_ForwardOnly ==
    /\ [][\A m \in 1..Len(args) :
             Stage(m)' = Stage(m) \/ Stage(m)' = Stage(m) + 1]_vars
    /\ [](\A m \in 1..Len(args) : (m \in libs) <=> (Stage(m) >= Opened))
    /\ [](\A m \in 1..Len(args) : m > k => (Stage(m) = Unopened /\ m \notin libs))
    /\ [][pc # "aborted"]_vars

C13_Witness ==
    /\ pc = "aborted"
    /\ k = 1
    /\ Len(args) = 2
    /\ args[1].kind = "no_entry_symbol"
    /\ args[2].kind = "plugin"
    /\ libs = {1}

----------------------------------------------------------------------------
(* Order of the load phase *)

LoadPhase == pc \in {"loop", "open", "get", "call", "entry"}

\* what has been registered when main stands in module k's entry function
\* after j of its register_plugin calls have returned
RegisteredSoFar == Registered(k - 1) \o SubSeq(ModuleObjects(k), 1, j)

\* C14: modules are loaded one at a time in argument order.  A library is
\* opened only at main's open step for the current path, when exactly the
\* paths before it are open and their entry functions have returned, all
\* their registrations made; and an entry function is called and runs only
\* with its module's library open and its entry symbol resolved.
C14_OneAtATimeInOrder ==
    /\ [][libs' # libs =>
            /\ pc = "open"
            /\ libs = 1..(k - 1)
            /\ libs' = 1..k
            /\ boxed = NoPlugin
            /\ plugins = Registered(k - 1)]_vars
    /\ [](pc \in {"call", "entry"} =>
            /\ k \in libs
            /\ args[k].kind = "plugin")
    /\ [][(pc' = "entry" /\ pc # "entry") => (pc = "call" /\ k' = k)]_vars

C14_Witness ==
    /\ pc = "get"
    /\ k = 2
    /\ libs = {1, 2}
    /\ Len(plugins) = 2
    /\ plugins[2].mod = 1

\* C15: the host makes no capability method call in the load phase: while
\* main is in the first loop no call has been made and no object is bound
\* to the loop variable, and whenever a call is about to be made or has
\* been made, every path has been taken, every library is open and every
\* registration has happened (each registered object is held or dropped).
C15_NoCallInLoadPhase ==
    /\ (LoadPhase => (calls = <<>> /\ plugin = NoPlugin))
    /\ ((calls # <<>> \/ pc \in {"cb1", "cb2", "drop"}) =>
            /\ k = Len(args)
            /\ AllValid
            /\ libs = 1..Len(args)
            /\ (pc # "aborted" =>
                  Held \cup dropped = Range(Registered(Len(args)))))

C15_Witness ==
    /\ pc = "cb1"
    /\ calls = <<>>
    /\ Len(args) = 2
    /\ plugin.mod = 1
    /\ Len(plugins) = 1
    /\ plugins[1].mod = 2

\* C16: registration moves the object one way, from the plugin to the
\* host.  What the entry function holds is never something the host has:
\* once register_plugin has returned, the Box is no longer the plugin's;
\* every object whose registration has returned is in the registrar's
\* sequence during the load phase, once; and at any time an object has one
\* owner only: the sequence (in one place), the loop variable, or none
\* after it was dropped.
C16_OneWayMoveToOneOwner ==
    /\ Cardinality(Range(plugins)) = Len(plugins)
    /\ plugin \notin Range(plugins)
    /\ Held \cap dropped = {}
    /\ boxed \notin Held \cup dropped
    /\ (boxed # NoPlugin => (pc = "entry" /\ boxed = Object(k, j + 1)))
    /\ (pc = "entry" => plugins = RegisteredSoFar)

C16_Witness ==
    /\ pc = "entry"
    /\ k = 2
    /\ j = 1
    /\ boxed # NoPlugin
    /\ boxed.idx = 2
    /\ Len(plugins) = 3

====
